---- MODULE Spec2Model ----
(***************************************************************************)
(* Model of the tutoring server (server/index.js): the mentor_query and    *)
(* execute_code socket handlers, the guidance client callGemini, the mesh  *)
(* client callZooCAD and the mock catalog mockCadData.                     *)
(*                                                                         *)
(* Text is a sequence of atoms.  For the guidance text an atom is the      *)
(* marker token (in either letter case), a blank, a line break or an       *)
(* ordinary character.  For catalog prompts and submitted code an atom is  *)
(* one character.  JavaScript values of varying type are records tagged    *)
(* with t; a completion is a record tagged with kind ("return"/"throw").   *)
(***************************************************************************)
EXTENDS Integers, Sequences, FiniteSets, TLC

VARIABLES useRealCad, connected, closed, reqs, emitted, vmRuns, sandbox, arg, ret

vars == <<useRealCad, connected, closed, reqs, emitted, vmRuns, sandbox, arg, ret>>

(* ------------------------------ bounds -------------------------------- *)

MaxReqs == 2

MaxText == 3

MaxFrags == 2

(* --------------------------- JavaScript values ------------------------ *)

Undefined == [t |-> "undefined"]

Null == [t |-> "null"]

Str(s) == [t |-> "string", s |-> s]

Return(v) == [kind |-> "return", value |-> v]

Throw(e) == [kind |-> "throw", value |-> e]

None == [t |-> "none"]

(* ------------------------------ text ---------------------------------- *)

RECURSIVE SeqsUpTo(_, _)
SeqsUpTo(S, n) ==
  IF n = 0 THEN {<<>>}
  ELSE LET shorter == SeqsUpTo(S, n - 1)
       IN  shorter \cup {Append(s, a) : s \in shorter, a \in S}

RECURSIVE Flat(_)
Flat(rows) == IF rows = <<>> THEN <<>> ELSE Head(rows) \o Flat(Tail(rows))

RECURSIVE Concat(_)
Concat(frags) == IF frags = <<>> THEN <<>> ELSE Head(frags) \o Concat(Tail(frags))

LowerOf ==
  [c \in {"A", "C", "E", "I", "M", "O", "P", "Q", "R", "S", "T", "U"} |->
     CASE c = "A" -> "a" [] c = "C" -> "c" [] c = "E" -> "e" [] c = "I" -> "i"
       [] c = "M" -> "m" [] c = "O" -> "o" [] c = "P" -> "p" [] c = "Q" -> "q"
       [] c = "R" -> "r" [] c = "S" -> "s" [] c = "T" -> "t" [] c = "U" -> "u"]

toLowerCase(s) ==
  [i \in 1..Len(s) |-> IF s[i] \in DOMAIN LowerOf THEN LowerOf[s[i]] ELSE s[i]]

includes(s, k) ==
  \E i \in 1..(Len(s) - Len(k) + 1) : SubSeq(s, i, i + Len(k) - 1) = k

cCamera == <<"c", "a", "m", "e", "r", "a">>

cTransistor == <<"t", "r", "a", "n", "s", "i", "s", "t", "o", "r">>

cProcess == <<"p", "r", "o", "c", "e", "s", "s">>

cRequire == <<"r", "e", "q", "u", "i", "r", "e">>

cImport == <<"i", "m", "p", "o", "r", "t">>

(* whitespace and line terminators of the guidance text *)
IsSpace(a) == a \in {" ", "\n"}

IsLineEnd(a) == a = "\n"

IsMarker(a) == a \in {"CAD_PROMPT:", "cad_prompt:"}

RECURSIVE TrimLeft(_)
TrimLeft(s) ==
  IF s # <<>> /\ IsSpace(Head(s)) THEN TrimLeft(Tail(s)) ELSE s

RECURSIVE TrimRight(_)
TrimRight(s) ==
  IF s # <<>> /\ IsSpace(s[Len(s)]) THEN TrimRight(SubSeq(s, 1, Len(s) - 1)) ELSE s

trim(s) == TrimRight(TrimLeft(s))

(* last index of the run of non-line-break atoms that starts at g *)
LineEnd(s, g) ==
  CHOOSE e \in g..Len(s) :
    /\ \A k \in g..e : ~IsLineEnd(s[k])
    /\ (e = Len(s) \/ IsLineEnd(s[e + 1]))

(* ------------------------- guidance client ---------------------------- *)

Apology == <<"I'm having trouble visualizing that. Let me try again...">>

ShowingPrefix == <<"3D model showing: ">>

EducationalPrefix == <<"Educational model for: ">>

(* /CAD_PROMPT:\s*(.+)/i tried at position i: \s* is greedy and gives    *)
(* atoms back until (.+) finds an atom that is not a line break.         *)
WsEnd(s, i) ==
  CHOOSE j \in i..Len(s) :
    /\ \A k \in (i + 1)..j : IsSpace(s[k])
    /\ (j = Len(s) \/ ~IsSpace(s[j + 1]))

GroupStarts(s, i) ==
  {g \in (i + 1)..(WsEnd(s, i) + 1) : g <= Len(s) /\ ~IsLineEnd(s[g])}

MatchesAt(s, i) == IsMarker(s[i]) /\ GroupStarts(s, i) # {}

SetMax(S) == CHOOSE x \in S : \A y \in S : y <= x

SetMin(S) == CHOOSE x \in S : \A y \in S : x <= y

(* response.match(/CAD_PROMPT:\s*(.+)/i): Null, or capture group 1 *)
cadSection(response) ==
  LET hits == {i \in 1..Len(response) : MatchesAt(response, i)}
  IN  IF hits = {} THEN Null
      ELSE LET i == SetMin(hits)
               g == SetMax(GroupStarts(response, i))
           IN  Str(SubSeq(response, g, LineEnd(response, g)))

(* response.replace(/CAD_PROMPT:.+/i, '') *)
replaceMarker(response) ==
  LET hits == {i \in 1..(Len(response) - 1) :
                 IsMarker(response[i]) /\ ~IsLineEnd(response[i + 1])}
  IN  IF hits = {} THEN response
      ELSE LET i == SetMin(hits)
           IN  SubSeq(response, 1, i - 1)
                 \o SubSeq(response, LineEnd(response, i + 1) + 1, Len(response))

(* the try block of callGemini; outcome is what the generation backend did *)
callGeminiTry(query, outcome) ==
  IF outcome.kind # "text" THEN Throw(outcome.kind)
  ELSE LET response == outcome.text
           section == cadSection(response)
       IN  Return([guidance |-> trim(replaceMarker(response)),
                   cadPrompt |-> IF section # Null THEN section.s
                                 ELSE ShowingPrefix \o query])

(* callGemini without its catch block *)
callGeminiNoCatch(query, outcome) == callGeminiTry(query, outcome)

callGemini(query, outcome) ==
  LET body == callGeminiTry(query, outcome)
  IN  IF body.kind = "throw"
      THEN Return([guidance |-> Apology, cadPrompt |-> EducationalPrefix \o query])
      ELSE body

(* --------------------------- mesh client ------------------------------ *)

Arr(a) == [t |-> "array", a |-> a]

Falsy(v) == v.t \in {"undefined", "null"}

ZooErrors == {"unreachable", "non2xx", "timeout"}

(* the try block of callZooCAD; resp is what the mesh backend did *)
callZooCADTry(resp) ==
  IF resp.kind \in ZooErrors THEN Throw(resp.kind)
  ELSE IF resp.kind = "noMesh" \/ Falsy(resp.vertices)
       THEN Throw("Invalid CAD response format")
  ELSE IF resp.faces.t # "array" THEN Throw("TypeError")
  ELSE Return([vertices |-> Flat(resp.vertices.a), indices |-> Flat(resp.faces.a)])

(* callZooCAD without its catch block *)
callZooCADNoCatch(resp) == callZooCADTry(resp)

callZooCAD(resp) ==
  LET body == callZooCADTry(resp)
  IN  IF body.kind = "throw" THEN Return(Null) ELSE body

(* --------------------------- mock catalog ----------------------------- *)

models ==
  [k \in {cCamera, cTransistor} |-> [vertices |-> <<>>, indices |-> <<>>]]

modelKeys == <<cCamera, cTransistor>>

DefaultQuad ==
  [vertices |-> <<-1, -1, -1, 1, -1, -1, 1, 1, -1, -1, 1, -1>>,
   indices |-> <<0, 1, 2, 0, 2, 3>>]

(* the lookup without toLowerCase *)
findKeyCaseSensitive(prompt) ==
  LET hits == {n \in 1..Len(modelKeys) : includes(prompt, modelKeys[n])}
  IN  IF hits = {} THEN Undefined ELSE Str(modelKeys[SetMin(hits)])

(* Object.keys(models).find(k => prompt.toLowerCase().includes(k)) *)
findKey(prompt) ==
  LET hits == {n \in 1..Len(modelKeys) : includes(toLowerCase(prompt), modelKeys[n])}
  IN  IF hits = {} THEN Undefined ELSE Str(modelKeys[SetMin(hits)])

mockCadData(prompt) ==
  IF prompt.t # "string" THEN Throw("TypeError")
  ELSE LET key == findKey(prompt.s)
       IN  Return(IF key # Undefined THEN models[key.s] ELSE DefaultQuad)

(* ------------------------ execution sandbox --------------------------- *)

(* the denylist test without the i flag *)
restrictedCaseSensitive(code) ==
  \E k \in {cProcess, cRequire, cImport} : includes(code, k)

(* /(process|require|import)/gi.test(code), on a regex literal built anew *)
(* by each evaluation of the handler body                                 *)
restricted(code) ==
  \E k \in {cProcess, cRequire, cImport} : includes(toLowerCase(code), k)

ExecutionError == <<"Execution Error: ">>

RestrictedMessage == <<"Restricted keywords detected">>

TimeoutMessage == <<"Script execution timed out after 2000ms">>

(* what the script does inside codeVm.run *)
VmOutcomes ==
  { [kind |-> "value", type |-> "number", text |-> <<"4">>],
    [kind |-> "value", type |-> "object", text |-> <<"{", "\n", "  ", "\"a\": 1", "\n", "}">>],
    [kind |-> "value", type |-> "undefined", text |-> <<>>],
    [kind |-> "throw", type |-> "Error", text |-> <<"boom">>],
    [kind |-> "throw", type |-> "Error", text |-> TimeoutMessage] }

(* lines 151-156: the value awaited from codeVm.run, then serialized *)
shapeResult(out) ==
  IF out.kind = "throw" THEN Throw(out.text)
  ELSE IF out.type = "undefined"
       THEN Throw(<<"Cannot read properties of undefined (reading 'toString')">>)
  ELSE Return(out.text)

(* scripts whose meaning the model knows *)
sOne == <<"1">>

sSum == <<"2", "+", "2">>

sDefine == <<"x", "=", "1">>

sRead == <<"x">>

sObject == <<"(", "{", "a", ":", "1", "}", ")">>

sVoid == <<"v", "o", "i", "d", " ", "0">>

sLoop == <<"f", "o", "r", "(", ";", ";", ")", ";">>

sNullRef == <<"n", "u", "l", "l", ".", "a">>

sThrowNull == <<"t", "h", "r", "o", "w", " ", "n", "u", "l", "l">>

sNever ==
  <<"n", "e", "w", " ", "P", "r", "o", "m", "i", "s", "e", "(", "(", ")", "=", ">",
    "{", "}", ")">>

Scripts ==
  {sOne, sSum, sDefine, sRead, sObject, sVoid, sLoop, sNullRef, sThrowNull, sNever}

Number(text) == [kind |-> "value", type |-> "number", text |-> text]

Raise(type, text) == [kind |-> "throw", type |-> type, text |-> text]

Pending == [kind |-> "pending", type |-> "promise", text |-> <<>>]

(* a loop that no timeout stops: the run never hands a value back *)
vmLoopNoTimeout(code, sb) == {[out |-> Pending, sandbox |-> sb]}

(* codeVm.run(code) on the one VM of the module, whose context sb (the   *)
(* globals defined so far) is kept from run to run: the possible         *)
(* outcomes and the context left behind                                  *)
vmRead(code, sb) ==
  IF "x" \in sb THEN {[out |-> Number(<<"1">>), sandbox |-> sb]}
  ELSE {[out |-> Raise("ReferenceError", <<"x is not defined">>), sandbox |-> sb]}

vmLoop(code, sb) == {[out |-> Raise("Error", TimeoutMessage), sandbox |-> sb]}

vmRun(code, sb) ==
  CASE code = sOne -> {[out |-> Number(<<"1">>), sandbox |-> sb]}
    [] code = sSum -> {[out |-> Number(<<"4">>), sandbox |-> sb]}
    [] code = sDefine -> {[out |-> Number(<<"1">>), sandbox |-> sb \cup {"x"}]}
    [] code = sRead -> vmRead(code, sb)
    [] code = sObject ->
         {[out |-> [kind |-> "value", type |-> "object",
                    text |-> <<"{", "\n", "  ", "\"a\": 1", "\n", "}">>],
           sandbox |-> sb]}
    [] code = sVoid ->
         {[out |-> [kind |-> "value", type |-> "undefined", text |-> <<>>],
           sandbox |-> sb]}
    [] code = sLoop -> vmLoop(code, sb)
    [] code = sNullRef ->
         {[out |-> Raise("TypeError", <<"Cannot read properties of null (reading 'a')">>),
           sandbox |-> sb]}
    [] code = sThrowNull -> {[out |-> Raise("null", <<>>), sandbox |-> sb]}
    [] code = sNever -> {[out |-> Pending, sandbox |-> sb]}
    [] OTHER -> {[out |-> o, sandbox |-> sb] : o \in VmOutcomes}

(* lines 157-161: the catch block reads error.message; of a thrown null  *)
(* that read raises                                                      *)
catchRaises(out) == out.kind = "throw" /\ out.type = "null"

(* the execute_code handler: whether the VM ran, and how it ends: with  *)
(* the emit of a string, pending for ever on the await of line 151, or  *)
(* with a fault when the catch block itself raised (nothing is emitted) *)
executeCode(code, out) ==
  IF restricted(code)
  THEN [ran |-> FALSE, end |-> "emit", result |-> ExecutionError \o RestrictedMessage]
  ELSE IF out.kind = "pending" THEN [ran |-> TRUE, end |-> "pending", result |-> <<>>]
  ELSE IF catchRaises(out) THEN [ran |-> TRUE, end |-> "fault", result |-> <<>>]
  ELSE LET shaped == shapeResult(out)
       IN  [ran |-> TRUE, end |-> "emit",
            result |-> IF shaped.kind = "throw" THEN ExecutionError \o shaped.value
                       ELSE shaped.value]

(* --------------------------- mentor handler --------------------------- *)

SystemError == <<"System error. Please try again later.">>

(* one call of mockCadData by the handler: where, and how it completed; *)
(* every call site passes no argument                                   *)
Lookup(at) == [at |-> at, res |-> mockCadData(Undefined)]

(* lines 137-142: the catch block *)
catchBlock(log) ==
  LET m == Lookup("catch")
  IN  IF m.res.kind = "throw"
      THEN [out |-> "fault", log |-> Append(log, m)]
      ELSE [out |-> "emit", guidance |-> SystemError, modelData |-> m.res.value,
            log |-> Append(log, m)]

(* lines 133-136: cadData || mockCadData(), then the emit *)
emitStep(guidance, cadData, log) ==
  IF cadData # Null
  THEN [out |-> "emit", guidance |-> guidance, modelData |-> cadData, log |-> log]
  ELSE LET m == Lookup("fallback")
       IN  IF m.res.kind = "throw" THEN catchBlock(Append(log, m))
           ELSE [out |-> "emit", guidance |-> guidance, modelData |-> m.res.value,
                 log |-> Append(log, m)]

(* lines 129-131 with the switch on mock: cadData = mockCadData() *)
mockBranch(guidance) ==
  LET m == Lookup("select")
  IN  IF m.res.kind = "throw" THEN catchBlock(<<m>>)
      ELSE emitStep(guidance, m.res.value, <<m>>)

(* lines 130-136 once callZooCAD has completed *)
afterMesh(guidance, zoo) ==
  IF zoo.kind = "throw" THEN catchBlock(<<>>) ELSE emitStep(guidance, zoo.value, <<>>)

(* ------------------------- inputs of the model ------------------------ *)

Sockets == {"s1", "s2"}

QueryTexts == {<<"l", "e", "n", "s">>, <<"C", "a", "m", "e", "r", "a">>}

(* what the generation backend can do with one sendMessage/text() *)
GeminiErrors == {"network", "timeout", "blocked"}

GeminiFails == {[kind |-> e, text |-> <<>>] : e \in GeminiErrors}

GeminiOutcomes ==
  GeminiFails
    \cup {[kind |-> "text", text |-> t] :
            t \in {<<"x">>, <<"x", "\n", "CAD_PROMPT:", " ", "x">>}}

Atoms == {"CAD_PROMPT:", "cad_prompt:", " ", "\n", "x"}

GeminiTexts == {[kind |-> "text", text |-> t] : t \in SeqsUpTo(Atoms, MaxText)}

(* what the mesh backend can do with one POST *)
VertexArrays ==
  {Undefined, Arr(<<>>), Arr(<<<<0, 0, 0>>>>),
   Arr(<<<<0, 0, 0>>, <<1, 0, 0>>, <<0, 1, 0>>>>)}

FaceArrays == {Undefined, Arr(<<>>), Arr(<<<<0, 1, 2>>>>), Arr(<<<<0, 1>>>>)}

ZooFails ==
  {[kind |-> e, vertices |-> Undefined, faces |-> Undefined] :
     e \in ZooErrors \cup {"noMesh"}}

ZooOutcomes ==
  ZooFails \cup {[kind |-> "payload", vertices |-> v, faces |-> f] :
                   v \in VertexArrays, f \in FaceArrays}

CodeFrags ==
  {<<"1">>, <<"r", "e">>, cImport, <<"i", "m">>, <<"P", "o", "r", "t">>,
   <<"P", "r", "o", "c", "e", "s", "s">>, <<"R", "E", "Q", "U", "I", "R", "E">>}

CodeInputs == {Concat(f) : f \in SeqsUpTo(CodeFrags, MaxFrags)}

PromptFrags ==
  {<<" ">>, <<"a">>, <<"c", "a", "m">>, <<"E", "r", "a">>, cCamera,
   <<"C", "A", "M", "E", "R", "A">>, cTransistor}

PromptInputs == {Concat(f) : f \in SeqsUpTo(PromptFrags, MaxFrags)}

(* the inputs of the concurrent specification: one of each kind *)
FewQueries == {<<"C", "a", "m", "e", "r", "a">>}

FewGemini ==
  {[kind |-> "network", text |-> <<>>],
   [kind |-> "text", text |-> <<"x", "\n", "CAD_PROMPT:", " ", "x">>]}

FewZoo ==
  {[kind |-> "timeout", vertices |-> Undefined, faces |-> Undefined],
   [kind |-> "payload", vertices |-> Arr(<<>>), faces |-> Arr(<<>>)],
   [kind |-> "payload", vertices |-> Arr(<<<<0, 0, 0>>>>), faces |-> Arr(<<<<0, 1, 2>>>>)],
   [kind |-> "payload", vertices |-> Arr(<<<<0, 0, 0>>, <<1, 0, 0>>, <<0, 1, 0>>>>),
    faces |-> Arr(<<<<0, 1, 2>>>>)]}

FewCodes == {<<"1">>, <<"r", "e">> \o cImport}

(* ------------------------------ state --------------------------------- *)

NewRequest(kind, s) ==
  [kind |-> kind, sock |-> s, pc |-> "Received", query |-> <<>>, switch |-> "unread",
   gem |-> None, guidance |-> <<>>, cadPrompt |-> <<>>, zoo |-> None,
   cadData |-> None, mockLog |-> <<>>, code |-> <<>>, vm |-> None]

Init ==
  /\ useRealCad \in BOOLEAN
  /\ connected = {}
  /\ closed = {}
  /\ reqs = <<>>
  /\ emitted = [s \in Sockets |-> <<>>]
  /\ vmRuns = <<>>
  /\ sandbox = {}
  /\ arg = None
  /\ ret = None

(* io.on('connection'): every connection is a new socket *)
Connect(s) ==
  /\ s \notin connected \cup closed
  /\ connected' = connected \cup {s}
  /\ UNCHANGED <<useRealCad, closed, reqs, emitted, vmRuns, sandbox, arg, ret>>

(* socket.on('disconnect') *)
Disconnect(s) ==
  /\ s \in connected
  /\ connected' = connected \ {s}
  /\ closed' = closed \cup {s}
  /\ UNCHANGED <<useRealCad, reqs, emitted, vmRuns, sandbox, arg, ret>>

(* process.env.USE_REAL_CAD is set or unset while the server runs *)
SwitchChanges ==
  /\ useRealCad' = ~useRealCad
  /\ UNCHANGED <<connected, closed, reqs, emitted, vmRuns, sandbox, arg, ret>>

(* socket.on('mentor_query'): up to the await of chat.sendMessage *)
MentorQuery(s, q) ==
  /\ s \in connected
  /\ Len(reqs) < MaxReqs
  /\ reqs' = Append(reqs, [NewRequest("mentor", s) EXCEPT
                             !.pc = "GuidanceRequested", !.query = q])
  /\ UNCHANGED <<useRealCad, connected, closed, emitted, vmRuns, sandbox, arg, ret>>

(* socket.emit on every socket instead of the handler's own *)
emitToAll(s, msg) == [t \in Sockets |-> Append(emitted[t], msg)]

(* socket.emit(event, payload) on the socket of the handler's closure *)
emitTo(s, msg) == [emitted EXCEPT ![s] = Append(@, msg)]

(* a handler that holds its response back while an earlier request of *)
(* the same socket has not ended                                      *)
FinishInArrivalOrder(r, req, fin) ==
  IF fin.out = "emit"
  THEN /\ reqs' = [reqs EXCEPT ![r] = [req EXCEPT !.pc = "Responded",
                                                  !.mockLog = fin.log]]
       /\ emitted' =
            IF \E q \in 1..(r - 1) :
                 reqs[q].sock = req.sock /\ reqs[q].pc \notin {"Responded", "Faulted"}
            THEN emitted
            ELSE emitTo(req.sock, [event |-> "mentor_response", req |-> r,
                                   guidance |-> fin.guidance,
                                   modelData |-> fin.modelData])
  ELSE /\ reqs' = [reqs EXCEPT ![r] = [req EXCEPT !.pc = "Faulted",
                                                  !.mockLog = fin.log]]
       /\ UNCHANGED emitted

(* the end of a mentor_query handler: an emit, or a rejected promise *)
Finish(r, req, fin) ==
  IF fin.out = "emit"
  THEN /\ reqs' = [reqs EXCEPT ![r] = [req EXCEPT !.pc = "Responded",
                                                  !.mockLog = fin.log]]
       /\ emitted' = emitTo(req.sock, [event |-> "mentor_response", req |-> r,
                                       guidance |-> fin.guidance,
                                       modelData |-> fin.modelData])
  ELSE /\ reqs' = [reqs EXCEPT ![r] = [req EXCEPT !.pc = "Faulted",
                                                  !.mockLog = fin.log]]
       /\ UNCHANGED emitted

(* the generation call of request r never settles: no option of the     *)
(* call bounds its duration                                             *)
GuidanceNeverReturns(r) ==
  /\ reqs[r].pc = "GuidanceRequested"
  /\ reqs' = [reqs EXCEPT ![r] = [@ EXCEPT !.pc = "GuidanceHung"]]
  /\ UNCHANGED <<useRealCad, connected, closed, emitted, vmRuns, sandbox, arg, ret>>

(* callGemini completes; the handler reads the switch and goes on *)
GuidanceReturns(r, outcome) ==
  /\ reqs[r].pc = "GuidanceRequested"
  /\ LET g == callGemini(reqs[r].query, outcome)
         got == [reqs[r] EXCEPT !.gem = outcome]
     IN  IF g.kind = "throw" THEN Finish(r, got, catchBlock(<<>>))
         ELSE LET req == [got EXCEPT !.guidance = g.value.guidance,
                                     !.cadPrompt = g.value.cadPrompt,
                                     !.switch = IF useRealCad THEN "live" ELSE "mock"]
              IN  IF useRealCad
                  THEN /\ reqs' = [reqs EXCEPT ![r] = [req EXCEPT !.pc = "MeshRequested"]]
                       /\ UNCHANGED emitted
                  ELSE Finish(r, req, mockBranch(req.guidance))
  /\ UNCHANGED <<useRealCad, connected, closed, vmRuns, sandbox, arg, ret>>

(* callZooCAD completes (axios settles within its 15000 ms timeout); *)
(* the handler emits                                                 *)
MeshReturns(r, resp) ==
  /\ reqs[r].pc = "MeshRequested"
  /\ LET zoo == callZooCAD(resp)
         req == [reqs[r] EXCEPT !.zoo = resp, !.cadData = zoo]
     IN  Finish(r, req, afterMesh(req.guidance, zoo))
  /\ UNCHANGED <<useRealCad, connected, closed, vmRuns, sandbox, arg, ret>>

(* an execute_code handler that waits for the mentor queries in flight *)
ExecuteCodeAfterMentor(s, code, res) ==
  /\ \A q \in DOMAIN reqs : reqs[q].pc \in {"Responded", "Faulted"}
  /\ reqs' = Append(reqs, [NewRequest("exec", s) EXCEPT !.pc = "Responded", !.code = code])
  /\ emitted' = emitTo(s, [event |-> "execution_result", req |-> Len(reqs) + 1,
                           result |-> <<>>])
  /\ UNCHANGED <<vmRuns, sandbox>>

(* the execute_code handler from the denylist test to its end; res is *)
(* what codeVm.run does with the code in the present context          *)
ExecuteCodeBody(s, code, res) ==
  LET e == executeCode(code, res.out)
      r == Len(reqs) + 1
  IN  /\ reqs' = Append(reqs, [NewRequest("exec", s) EXCEPT
                                 !.pc = CASE e.end = "emit" -> "Responded"
                                          [] e.end = "fault" -> "Faulted"
                                          [] OTHER -> "VmAwaited",
                                 !.code = code,
                                 !.vm = IF e.ran THEN res.out ELSE None])
      /\ vmRuns' = IF e.ran THEN Append(vmRuns, code) ELSE vmRuns
      /\ sandbox' = IF e.ran THEN res.sandbox ELSE sandbox
      /\ emitted' = IF e.end = "emit"
                    THEN emitTo(s, [event |-> "execution_result", req |-> r,
                                    result |-> e.result])
                    ELSE emitted

(* socket.on('execute_code') *)
ExecuteCode(s, code, out) ==
  /\ s \in connected
  /\ Len(reqs) < MaxReqs
  /\ \E res \in vmRun(code, sandbox) : res.out = out /\ ExecuteCodeBody(s, code, res)
  /\ UNCHANGED <<useRealCad, connected, closed, arg, ret>>

AllOutcomes ==
  VmOutcomes \cup UNION {{res.out : res \in vmRun(c, sb)} : c \in Scripts, sb \in SUBSET {"x"}}

Next ==
  \/ \E s \in Sockets : Connect(s)
  \/ \E s \in Sockets : Disconnect(s)
  \/ SwitchChanges
  \/ \E s \in Sockets, q \in FewQueries : MentorQuery(s, q)
  \/ \E r \in DOMAIN reqs : GuidanceNeverReturns(r)
  \/ \E r \in DOMAIN reqs, o \in FewGemini : GuidanceReturns(r, o)
  \/ \E r \in DOMAIN reqs, o \in FewZoo : MeshReturns(r, o)
  \/ \E s \in Sockets, c \in FewCodes, o \in AllOutcomes : ExecuteCode(s, c, o)

Spec == Init /\ [][Next]_vars

(* ---- one mentor_query at a time, every backend outcome of the model --- *)

InitMentor ==
  /\ useRealCad \in BOOLEAN
  /\ connected = {"s1"}
  /\ closed = {}
  /\ reqs = <<>>
  /\ emitted = [s \in Sockets |-> <<>>]
  /\ vmRuns = <<>>
  /\ sandbox = {}
  /\ arg = None
  /\ ret = None

NextMentor ==
  \/ \E q \in QueryTexts : reqs = <<>> /\ MentorQuery("s1", q)
  \/ \E r \in DOMAIN reqs : GuidanceNeverReturns(r)
  \/ \E r \in DOMAIN reqs, o \in GeminiOutcomes : GuidanceReturns(r, o)
  \/ \E r \in DOMAIN reqs, o \in ZooOutcomes : MeshReturns(r, o)

SpecMentor == InitMentor /\ [][NextMentor]_vars

(* ---- one execute_code request, every source text of the model --------- *)

InitExec ==
  /\ useRealCad = FALSE
  /\ connected = {"s1"}
  /\ closed = {}
  /\ reqs = <<>>
  /\ emitted = [s \in Sockets |-> <<>>]
  /\ vmRuns = <<>>
  /\ sandbox = {}
  /\ arg \in {Str(c) : c \in CodeInputs}
  /\ ret = None

NextExec ==
  \E o \in VmOutcomes \cup AllOutcomes : reqs = <<>> /\ ExecuteCode("s1", arg.s, o)

SpecExec == InitExec /\ [][NextExec]_vars

(* ---- execute_code requests of two connections on the one VM ----------- *)

InitSandbox ==
  /\ useRealCad = FALSE
  /\ connected = Sockets
  /\ closed = {}
  /\ reqs = <<>>
  /\ emitted = [s \in Sockets |-> <<>>]
  /\ vmRuns = <<>>
  /\ sandbox = {}
  /\ arg = None
  /\ ret = None

NextSandbox ==
  \E s \in Sockets, c \in Scripts, o \in AllOutcomes : ExecuteCode(s, c, o)

SpecSandbox == InitSandbox /\ [][NextSandbox]_vars

(* ---- callGemini applied to every query and backend outcome ------------ *)

Idle ==
  /\ useRealCad = FALSE
  /\ connected = {}
  /\ closed = {}
  /\ reqs = <<>>
  /\ emitted = [s \in Sockets |-> <<>>]
  /\ vmRuns = <<>>
  /\ sandbox = {}

InitGuidance ==
  /\ Idle
  /\ arg \in {[query |-> q, outcome |-> o] :
                q \in QueryTexts, o \in GeminiFails \cup GeminiTexts}
  /\ ret = None

ApplyGuidance ==
  /\ ret = None
  /\ ret' = callGemini(arg.query, arg.outcome)
  /\ UNCHANGED <<useRealCad, connected, closed, reqs, emitted, vmRuns, sandbox, arg>>

SpecGuidance == InitGuidance /\ [][ApplyGuidance]_vars

(* ---- mockCadData applied to every prompt of the model ----------------- *)

InitCatalog ==
  /\ Idle
  /\ arg \in {Str(p) : p \in PromptInputs}
  /\ ret = None

ApplyCatalog ==
  /\ ret = None
  /\ ret' = mockCadData(arg)
  /\ UNCHANGED <<useRealCad, connected, closed, reqs, emitted, vmRuns, sandbox, arg>>

SpecCatalog == InitCatalog /\ [][ApplyCatalog]_vars

(* ============================== claims ================================ *)

MentorReqs == {r \in DOMAIN reqs : reqs[r].kind = "mentor"}

Ended(r) == reqs[r].pc \in {"Responded", "Faulted"}

(* the mentor_response messages emitted for request r *)
ResponsesTo(r) ==
  {i \in DOMAIN emitted[reqs[r].sock] :
     /\ emitted[reqs[r].sock][i].event = "mentor_response"
     /\ emitted[reqs[r].sock][i].req = r}

MeshValid(m) ==
  /\ Len(m.indices) % 3 = 0
  /\ \A i \in DOMAIN m.indices : 3 * m.indices[i] < Len(m.vertices)

(* w, in lower case, occurs in s in some letter case *)
ContainsAnyCase(s, w) ==
  \E i \in 1..(Len(s) - Len(w) + 1) :
    \A k \in 1..Len(w) :
      \/ s[i + k - 1] = w[k]
      \/ (s[i + k - 1] \in DOMAIN LowerOf /\ LowerOf[s[i + k - 1]] = w[k])

(* C1: every mentor_query whose handling has ended ended in Responded,    *)
(* with exactly one mentor_response emitted for it, whatever the switch   *)
(* and the outcomes of the guidance and mesh calls; no query ends in any  *)
(* other state and none is answered twice.                                *)
C1_EveryQueryResponded ==
  \A r \in MentorReqs :
    /\ Cardinality(ResponsesTo(r)) <= 1
    /\ Ended(r) => (reqs[r].pc = "Responded" /\ Cardinality(ResponsesTo(r)) = 1)

(* C2: when the switch selected live generation and the mesh client       *)
(* returned Failure, the query's mentor_response carries the explanation  *)
(* produced by the guidance call and the Mock Catalog lookup result for   *)
(* the same directive.                                                    *)
C2_MeshFailureFallsBack ==
  \A r \in MentorReqs :
    (reqs[r].switch = "live" /\ reqs[r].cadData = Return(Null)) =>
      \E i \in ResponsesTo(r) :
        /\ emitted[reqs[r].sock][i].guidance = reqs[r].guidance
        /\ emitted[reqs[r].sock][i].modelData
             = mockCadData(Str(reqs[r].cadPrompt)).value

(* C3: every mesh placed in an emitted mentor_response has a number of    *)
(* indices divisible by 3 and every index below the number of vertices.   *)
C3_EmittedMeshesValid ==
  \A s \in Sockets : \A i \in DOMAIN emitted[s] :
    emitted[s][i].event = "mentor_response" => MeshValid(emitted[s][i].modelData)

FirstMarker(raw) == SetMin({i \in DOMAIN raw : IsMarker(raw[i])})

LineStart(raw, i) ==
  SetMax({1} \cup {k + 1 : k \in {k \in 1..(i - 1) : IsLineEnd(raw[k])}})

LineStop(raw, i) ==
  SetMin({Len(raw)} \cup {k - 1 : k \in {k \in (i + 1)..Len(raw) : IsLineEnd(raw[k])}})

WithoutMarkerLine(raw) ==
  LET i == FirstMarker(raw)
  IN  SubSeq(raw, 1, LineStart(raw, i) - 1)
        \o SubSeq(raw, LineStop(raw, i) + 2, Len(raw))

(* C5: for a raw text with a marker line the directive is the trimmed     *)
(* remainder of the first such line and the explanation is the raw text   *)
(* without that line (compared up to surrounding blanks); for a raw text  *)
(* with no marker the directive is "3D model showing: " and the query.    *)
C5_DirectiveExtraction ==
  (ret # None /\ arg.outcome.kind = "text") =>
    LET raw == arg.outcome.text
    IN  IF \E i \in DOMAIN raw : IsMarker(raw[i])
        THEN /\ ret.value.cadPrompt
                  = trim(SubSeq(raw, FirstMarker(raw) + 1, LineStop(raw, FirstMarker(raw))))
             /\ trim(ret.value.guidance) = trim(WithoutMarkerLine(raw))
        ELSE ret.value.cadPrompt = ShowingPrefix \o arg.query

MissingOrEmpty(v) == v = Undefined \/ v = Arr(<<>>)

(* C6: for every backend response whose vertex array is missing or empty  *)
(* the mesh client returns Failure, never a mesh built from it.           *)
C6_EmptyVerticesIsFailure ==
  \A r \in MentorReqs :
    (reqs[r].zoo # None /\ MissingOrEmpty(reqs[r].zoo.vertices)) =>
      reqs[r].cadData = Return(Null)

(* the failures of the backend call that C7 lists *)
ZooFailed(resp) ==
  \/ resp.kind \in ZooErrors
  \/ resp.kind = "noMesh"
  \/ resp.vertices = Undefined
  \/ resp.faces = Undefined

ReachedFallback(r) ==
  \E i \in DOMAIN reqs[r].mockLog : reqs[r].mockLog[i].at = "fallback"

(* C7: the mesh client never completes by raising; for every failure of   *)
(* the backend call it returns the Failure value, and the handler then    *)
(* reaches its fallback decision (cadData || mockCadData()).              *)
C7_MeshClientNeverRaises ==
  \A r \in MentorReqs :
    reqs[r].zoo # None =>
      /\ reqs[r].cadData.kind = "return"
      /\ ZooFailed(reqs[r].zoo) =>
           (reqs[r].cadData.value = Null /\ ReachedFallback(r))

C7_Witness ==
  \E r \in MentorReqs :
    /\ reqs[r].zoo # None
    /\ reqs[r].zoo.kind = "payload"
    /\ reqs[r].zoo.vertices # Undefined
    /\ reqs[r].zoo.faces = Undefined
    /\ reqs[r].cadData = Return(Null)
    /\ ReachedFallback(r)

(* C8: every Mock Catalog lookup made while handling a mentor_query       *)
(* (mock mode, fallback after a live failure, unexpected-error path)      *)
(* completes without raising and returns a mesh.                          *)
C8_LookupNeverFails ==
  \A r \in MentorReqs : \A i \in DOMAIN reqs[r].mockLog :
    /\ reqs[r].mockLog[i].res.kind = "return"
    /\ MeshValid(reqs[r].mockLog[i].res.value)

NoKeyword(s) == ~ContainsAnyCase(s, cCamera) /\ ~ContainsAnyCase(s, cTransistor)

(* C9: a prompt containing "camera" in any letter case gets the camera    *)
(* mesh; a prompt matching no keyword gets the default quad, 12           *)
(* coordinates (4 vertices) and 6 indices (2 triangles).                  *)
C9_CatalogLookup ==
  ret # None =>
    /\ ret.kind = "return"
    /\ ContainsAnyCase(arg.s, cCamera) => ret.value = models[cCamera]
    /\ NoKeyword(arg.s) =>
         /\ ret.value = DefaultQuad
         /\ Len(ret.value.vertices) = 12
         /\ Len(ret.value.indices) = 6

C9_Witness ==
  /\ ret # None
  /\ arg.s = <<"c", "a", "m", "E", "r", "a">>
  /\ ret.value = models[cCamera]

ExecReqs == {r \in DOMAIN reqs : reqs[r].kind = "exec"}

Denylisted(code) ==
  \E w \in {cProcess, cRequire, cImport} : ContainsAnyCase(code, w)

ResultsTo(r) ==
  {i \in DOMAIN emitted[reqs[r].sock] :
     /\ emitted[reqs[r].sock][i].event = "execution_result"
     /\ emitted[reqs[r].sock][i].req = r}

(* C10: an execute_code request whose source contains process, require or *)
(* import in any letter case, also inside a longer word, is answered with *)
(* the restricted-operation error and the VM is never run on that source. *)
C10_DenylistPrecedesExecution ==
  \A r \in ExecReqs :
    Denylisted(reqs[r].code) =>
      /\ \A i \in DOMAIN vmRuns : vmRuns[i] # reqs[r].code
      /\ reqs[r].vm = None
      /\ ResultsTo(r) # {}
      /\ \A i \in ResultsTo(r) :
           emitted[reqs[r].sock][i].result = ExecutionError \o RestrictedMessage

C10_Witness ==
  \E r \in ExecReqs :
    /\ reqs[r].code = <<"r", "e", "i", "m", "p", "o", "r", "t">>
    /\ vmRuns = <<>>
    /\ \E i \in ResultsTo(r) :
         emitted[reqs[r].sock][i].result = ExecutionError \o RestrictedMessage

(* C11: no execute_code run observes what another run left in the         *)
(* interpreter: a run that reads the global x, which its own source never *)
(* defines, finds it undefined whatever ran before on any connection, and *)
(* two runs of the same source end the same way.                          *)
C11_RunsIsolated ==
  \A r \in ExecReqs :
    /\ (reqs[r].code = sRead /\ reqs[r].vm # None) =>
         reqs[r].vm = Raise("ReferenceError", <<"x is not defined">>)
    /\ \A q \in ExecReqs : reqs[q].code = reqs[r].code => reqs[q].vm = reqs[r].vm

ResultOf(r) == {emitted[reqs[r].sock][i].result : i \in ResultsTo(r)}

IsErrorString(t) == Len(t) > 0 /\ t[1] = ExecutionError[1]

Completed(r) == reqs[r].vm # None /\ reqs[r].vm.kind = "value"

(* C13: a script that ran to its end without raising and within the time *)
(* limit is answered with one execution_result that is not an error      *)
(* string; for a number or an object it is the text of the value.        *)
C13_CompletedRunSerialized ==
  \A r \in ExecReqs :
    Completed(r) =>
      /\ Cardinality(ResultsTo(r)) = 1
      /\ \A t \in ResultOf(r) :
           /\ ~IsErrorString(t)
           /\ reqs[r].vm.type \in {"number", "object"} => t = reqs[r].vm.text

Failed(r) ==
  \/ Denylisted(reqs[r].code)
  \/ reqs[r].vm # None /\ reqs[r].vm.kind = "throw"

(* C14: every execute_code request has exactly one execution_result, and *)
(* when the request failed (denylist, timeout, an exception of the       *)
(* script) its result is a string that starts with "Execution Error: ".  *)
C14_OneResultPerRequest ==
  \A r \in ExecReqs :
    /\ Cardinality(ResultsTo(r)) = 1
    /\ Failed(r) => \A t \in ResultOf(r) : IsErrorString(t)

CanAdvance(r) ==
  \/ ENABLED (\E o \in GeminiOutcomes : GuidanceReturns(r, o))
  \/ ENABLED (\E o \in ZooOutcomes : MeshReturns(r, o))

(* C15: no mentor_query waits for ever on an external call: a query that *)
(* has not ended always has a step that takes it on, also when its       *)
(* generation call never returns (a timeout then ends the wait).         *)
C15_NoQueryPendingForEver ==
  \A r \in MentorReqs : Ended(r) \/ CanAdvance(r)

(* C16: no step appends a message to the sequence of a socket that is *)
(* not connected: the completion of a request whose connection closed  *)
(* meanwhile writes nothing to it.                                     *)
C16_NoEmitOnClosedConnection ==
  [][\A s \in Sockets : emitted'[s] # emitted[s] => s \in connected]_vars

CatalogMeshes == {models[k] : k \in DOMAIN models} \cup {DefaultQuad}

(* C17: the switch is read for each query when the query is handled: a  *)
(* query handled on mock makes no mesh call and is answered with a mesh *)
(* of the Mock Catalog; a query handled on live goes to the mesh        *)
(* backend, whatever the switch was for an earlier query of the session.*)
C17_SwitchReadPerQuery ==
  \A r \in MentorReqs :
    /\ reqs[r].switch = "mock" =>
         /\ reqs[r].zoo = None
         /\ \E i \in ResponsesTo(r) :
              emitted[reqs[r].sock][i].modelData \in CatalogMeshes
    /\ reqs[r].switch = "live" =>
         (reqs[r].pc = "MeshRequested" \/ reqs[r].zoo # None)

MentorWaiting == \E p \in MentorReqs : ~Ended(p)

(* one completion of each downstream call, taken from FewGemini and FewZoo *)
GuidanceFailure == [kind |-> "network", text |-> <<>>]

MeshTimeout == [kind |-> "timeout", vertices |-> Undefined, faces |-> Undefined]

C18_WitnessSecondQuery ==
  /\ Len(reqs) = 2
  /\ reqs[1].kind = "mentor"
  /\ reqs[1].pc = "GuidanceRequested"
  /\ reqs[2].kind = "mentor"
  /\ reqs[2].pc = "Responded"

BecomesResponded(r) ==
  /\ reqs'[r].pc = "Responded"
  /\ (r \in DOMAIN reqs => reqs[r].pc # "Responded")

(* C19: the response of a request is emitted in the step in which the    *)
(* request finishes, at the end of what its connection has been sent so  *)
(* far, whatever earlier requests of the connection are still waiting;   *)
(* messages already emitted are never moved or removed. Responses thus   *)
(* appear in the order of completion, not of arrival.                    *)
C19_EmittedInCompletionOrder ==
  [][/\ \A s \in Sockets :
          /\ Len(emitted'[s]) >= Len(emitted[s])
          /\ SubSeq(emitted'[s], 1, Len(emitted[s])) = emitted[s]
     /\ \A r \in DOMAIN reqs' :
          BecomesResponded(r) =>
            LET s == reqs'[r].sock
            IN  /\ Len(emitted'[s]) = Len(emitted[s]) + 1
                /\ emitted'[s][Len(emitted'[s])].req = r]_vars

C19_Witness ==
  \E s \in Sockets : \E i, j \in DOMAIN emitted[s] :
    /\ i < j
    /\ emitted[s][i].req > emitted[s][j].req
    /\ reqs[emitted[s][j].req].kind = "mentor"

(* C20: every message a connection has been sent answers a request that *)
(* this same connection made, in every reachable state of the           *)
(* interleaved handlers of several connections.                         *)
C20_ResponseOnOwnConnection ==
  \A s \in Sockets : \A i \in DOMAIN emitted[s] :
    /\ emitted[s][i].req \in DOMAIN reqs
    /\ reqs[emitted[s][i].req].sock = s
    /\ emitted[s][i].event =
         (IF reqs[emitted[s][i].req].kind = "mentor" THEN "mentor_response"
          ELSE "execution_result")

C20_Witness ==
  /\ \E i \in DOMAIN emitted["s1"] : emitted["s1"][i].event = "mentor_response"
  /\ \E i \in DOMAIN emitted["s2"] : emitted["s2"][i].event = "execution_result"
  /\ {"s1", "s2"} \subseteq connected

====
